---- MODULE Spec2Model ----
(***************************************************************************)
(* Cross-page animated mesh (lib/animated-mesh): the window-global         *)
(* sharedMeshState, the DOM geometry sampler getDOMState, and the          *)
(* requestAnimationFrame loop that AnimatedMesh's useEffect starts and     *)
(* its cleanup cancels.                                                    *)
(*                                                                         *)
(* Numbers.  Positions and scales are JavaScript numbers.  They are        *)
(* modelled as exact decimals in fixed point: the integer n stands for     *)
(* n / Unit.  Unit has one decimal digit per interpolation step plus one   *)
(* for the half pixel of width / 2, so every value the loop computes       *)
(* within MaxTicks steps is represented without rounding.                  *)
(***************************************************************************)
EXTENDS Integers, Sequences, FiniteSets, TLC

\* ------------------------------------------------------------------ bounds
\* Number of interpolating ticks (animate() calls that reach the lerp) a run may take.
MaxTicks == 2

\* ------------------------------------------------------- program constants
\* lerpFactor = 0.1, the default of AnimatedMesh and AnimatedElement, in tenths.
DefaultLerpFactor == 1
\* Denominator of the lerp factors: a factor a stands for a / LerpDen.
LerpDen == 10

Unit == 10 ^ (MaxTicks + 1)

\* Two AnimatedElement instances that can be mounted together, with the ids of
\* the two the index route mounts.
Instances == {"index.b", "index.c"}

IdOf(i) == CASE i = "index.b" -> "pageb-element"
             [] i = "index.c" -> "pagec-element"

\* The lerpFactor prop of each instance, in tenths: one leaves the default,
\* the other is given 0.5 so that the loop is exercised with a second factor.
LerpFactorOf(i) == CASE i = "index.b" -> DefaultLerpFactor
                     [] i = "index.c" -> 5

Ids == {IdOf(i) : i \in Instances}

\* Bounding rects (CSS pixels) getBoundingClientRect() may return for a tracked
\* element, and viewport sizes window.innerWidth / innerHeight may have.
Rects == { [left |-> 100, top |-> 200, width |-> 80, height |-> 80],
           [left |-> 560, top |-> 360, width |-> 80, height |-> 80],
           [left |-> 40, top |-> 1000, width |-> 81, height |-> 81] }

Viewports == { [w |-> 1000, h |-> 800] }

\* track.current while no element is attached (useRef(null!)).
Null == [null |-> TRUE]
\* What calling a method on null raises.
TypeError == [error |-> "TypeError"]

\* window.sharedMeshState is undefined until the first getSharedMeshState().
Undefined == [undefined |-> TRUE]
\* A canvasChildren slot with nothing registered under the key; created counts
\* the mesh objects made for the key so far.
NoMesh == [registered |-> FALSE, created |-> 0]

\* The dispose option AnimatedMesh passes to useCanvas.
Dispose == FALSE

VARIABLES
    sharedMeshState,  \* window.sharedMeshState: Undefined or [position, scale, animationId]
    rafCallbacks,     \* the browser's pending requestAnimationFrame callbacks
    rafNext,          \* the handle the next requestAnimationFrame() returns
    phase,            \* per instance: position of its useEffect in React's lifecycle
    track,            \* per instance: track.current is set
    inViewport,       \* per instance: tracker.inViewport of the last render
    canvas,           \* per id: the mesh useCanvas registered (dispose: false)
    thrown,           \* an exception escaped an effect or a frame callback
    ticks,            \* number of interpolating ticks so far
    run,              \* the current run of ticks towards one target (observation only)
    last              \* what the last step did (observation only)

\* The state the effect and the frame callbacks read and write, as one value;
\* steps lists, in order, what the code of the step has done.
World == [shared |-> sharedMeshState, cbs |-> rafCallbacks, next |-> rafNext,
          canvas |-> canvas, thrown |-> thrown, ticks |-> ticks, steps |-> <<>>]

vars == <<sharedMeshState, rafCallbacks, rafNext, phase, track, inViewport,
          canvas, thrown, ticks, run, last>>

\* --------------------------------------------------------------- vectors
Vec(x, y, z) == <<x * Unit, y * Unit, z * Unit>>

\* Lerp with the weight on the wrong end: moves by (1 - alpha) of the distance.
LerpComplement(self, v, alpha) ==
    [k \in 1..3 |-> self[k] + ((v[k] - self[k]) * (LerpDen - alpha)) \div LerpDen]

\* Lerp with the difference taken the wrong way round: moves away from v.
LerpAway(self, v, alpha) ==
    [k \in 1..3 |-> self[k] + ((self[k] - v[k]) * alpha) \div LerpDen]

\* three.js Vector3.lerp(v, alpha): this.c += (v.c - this.c) * alpha, per component.
Lerp(self, v, alpha) ==
    [k \in 1..3 |-> self[k] + ((v[k] - self[k]) * alpha) \div LerpDen]

\* -------------------------------------------------------- 1. global state
NewSharedMeshState ==
    [position |-> Vec(0, 0, 0), scale |-> Vec(1, 1, 1), animationId |-> 0]

\* getSharedMeshState without the existence test: a fresh state on every call.
getSharedMeshStateFresh(w) ==
    [position |-> <<0, 0, 0>>, scale |-> <<Unit, Unit, Unit>>, animationId |-> 0]

\* getSharedMeshState that hands out the existing state with its handle reset.
getSharedMeshStateResetHandle(w) ==
    IF w = Undefined THEN NewSharedMeshState ELSE [w EXCEPT !.animationId = 0]

getSharedMeshState(w) == IF w = Undefined THEN NewSharedMeshState ELSE w

\* ------------------------------------------------- 3. DOM-based positioning
\* getDOMState without the sign flip of the Y axis.
getDOMStateNoFlip(element, vp) ==
    IF element = Null THEN TypeError
    ELSE [position |->
            << element.left * Unit + (element.width * Unit) \div 2 - (vp.w * Unit) \div 2,
               element.top * Unit + (element.height * Unit) \div 2 - (vp.h * Unit) \div 2,
               0 >>,
          scale |-> << element.width * Unit, element.height * Unit, Unit >>]

\* element is the rect element.getBoundingClientRect() returns, or Null;
\* vp is window.innerWidth / innerHeight at the time of the call.
getDOMState(element, vp) ==
    IF element = Null THEN TypeError
    ELSE LET rect == element IN
    [position |->
        << rect.left * Unit + (rect.width * Unit) \div 2 - (vp.w * Unit) \div 2,
           -(rect.top * Unit + (rect.height * Unit) \div 2 - (vp.h * Unit) \div 2),
           0 >>,
     scale |-> << rect.width * Unit, rect.height * Unit, 1 * Unit >>]

\* ----------------------------------------------------- browser frame queue
\* cancelAnimationFrame(handle): drops the pending callback with that handle;
\* a handle that already fired, was cancelled, or was never issued is ignored.
cancelAnimationFrame(cbs, handle) == {c \in cbs : c.handle # handle}

\* requestAnimationFrame handles are positive and never reused.
requestAnimationFrame(w, closure) ==
    [w EXCEPT !.cbs = @ \cup {[handle |-> w.next, closure |-> closure]},
              !.next = @ + 1,
              !.steps = Append(@, "requestAnimationFrame")]

\* requestRender() of useScrollRig: asks the canvas to draw the next frame.
requestRender(w) == [w EXCEPT !.steps = Append(@, "requestRender")]

\* ------------------------------------------------------ 2. persistent mesh
\* useCanvas(mesh, props, {key, dispose: false}): the first registration under
\* a key creates the mesh with the props of that render; a later one under the
\* same key finds it and leaves it as it is.
\* useCanvas that makes a new mesh on every registration.
useCanvasRecreate(cv, key, props) ==
    [cv EXCEPT ![key] = [registered |-> TRUE, created |-> @.created + 1,
                         props |-> props]]

useCanvas(cv, key, props) ==
    IF cv[key].registered THEN cv
    ELSE [cv EXCEPT ![key] = [registered |-> TRUE, created |-> @.created + 1,
                              props |-> props]]

\* What useCanvas does when its component unmounts: the mesh is removed only
\* if dispose is set.
removeFromCanvas(cv, key, dispose) ==
    IF dispose /\ cv[key].registered
    THEN [cv EXCEPT ![key] = [registered |-> FALSE, created |-> @.created]]
    ELSE cv

\* update(props), the function useCanvas returns: sets the props of the mesh
\* registered under the key.
update(cv, key, props) ==
    IF cv[key].registered THEN [cv EXCEPT ![key].props = props] ELSE cv

MeshProps(shared, visible) ==
    [position |-> shared.position, scale |-> shared.scale, visible |-> visible]

\* ------------------------------------------------------ 4. animation loop
\* What the effect's closure captured: the instance (its track ref, its id and
\* update function), tracker.inViewport and lerpFactor of that render.
Closure(i) == [inst |-> i, visible |-> inViewport[i], lerpFactor |-> LerpFactorOf(i)]

\* animate() without the test of track.current.
animateNoGuard(w, c, element, vp) ==
    LET target == getDOMState(element, vp) IN
    IF target = TypeError THEN [w EXCEPT !.thrown = TRUE]
    ELSE LET lerped == [w EXCEPT
                         !.shared.position = Lerp(@, target.position, c.lerpFactor),
                         !.shared.scale = Lerp(@, target.scale, c.lerpFactor),
                         !.ticks = @ + 1,
                         !.steps = Append(@, "lerp")]
             pushed == [lerped EXCEPT
                         !.canvas = update(@, IdOf(c.inst),
                                           MeshProps(lerped.shared, c.visible)),
                         !.steps = Append(@, "update")]
             rendered == requestRender(pushed)
             queued == requestAnimationFrame(rendered, c)
         IN [queued EXCEPT !.shared.animationId = rendered.next]

\* animate() that pushes the props to the mesh before it interpolates.
animatePushFirst(w, c, element, vp) ==
    IF element = Null THEN w
    ELSE LET target == getDOMState(element, vp) IN
         IF target = TypeError THEN [w EXCEPT !.thrown = TRUE]
         ELSE LET pushed == [w EXCEPT
                              !.canvas = update(@, IdOf(c.inst),
                                                MeshProps(w.shared, c.visible)),
                              !.steps = Append(@, "update")]
                  lerped == [pushed EXCEPT
                              !.shared.position = Lerp(@, target.position, c.lerpFactor),
                              !.shared.scale = Lerp(@, target.scale, c.lerpFactor),
                              !.ticks = @ + 1,
                              !.steps = Append(@, "lerp")]
                  rendered == requestRender(lerped)
                  queued == requestAnimationFrame(rendered, c)
              IN [queued EXCEPT !.shared.animationId = rendered.next]

\* animate(): one run of the loop body for closure c, reading track.current = element.
animate(w, c, element, vp) ==
    IF element = Null THEN w
    ELSE LET target == getDOMState(element, vp) IN
         IF target = TypeError THEN [w EXCEPT !.thrown = TRUE]
         ELSE LET lerped == [w EXCEPT
                              !.shared.position = Lerp(@, target.position, c.lerpFactor),
                              !.shared.scale = Lerp(@, target.scale, c.lerpFactor),
                              !.ticks = @ + 1,
                              !.steps = Append(@, "lerp")]
                  pushed == [lerped EXCEPT
                              !.canvas = update(@, IdOf(c.inst),
                                                MeshProps(lerped.shared, c.visible)),
                              !.steps = Append(@, "update")]
                  rendered == requestRender(pushed)
                  queued == requestAnimationFrame(rendered, c)
              IN [queued EXCEPT !.shared.animationId = rendered.next]

\* The effect body without cancel-before-start.
effectNoCancel(w, c, element, vp) == animate(w, c, element, vp)

\* An effect body that only schedules animate instead of calling it.
effectScheduleOnly(w, c, element, vp) ==
    LET cancelled ==
            IF w.shared.animationId # 0
            THEN [w EXCEPT !.cbs = cancelAnimationFrame(@, w.shared.animationId)]
            ELSE w
        queued == requestAnimationFrame(cancelled, c)
    IN [queued EXCEPT !.shared.animationId = cancelled.next]

\* The effect body up to its return of the cleanup: cancel-before-start, then
\* the synchronous first animate().
effect(w, c, element, vp) ==
    LET cancelled ==
            IF w.shared.animationId # 0
            THEN [w EXCEPT !.cbs = cancelAnimationFrame(@, w.shared.animationId)]
            ELSE w
    IN animate(cancelled, c, element, vp)

\* A cleanup that forgets the handle without cancelling the callback.
cleanupNoCancel(w) ==
    IF w.shared.animationId # 0 THEN [w EXCEPT !.shared.animationId = 0] ELSE w

\* A cleanup that cancels the callback and keeps the handle.
cleanupKeepHandle(w) ==
    IF w.shared.animationId # 0
    THEN [w EXCEPT !.cbs = cancelAnimationFrame(@, w.shared.animationId)]
    ELSE w

\* The cleanup the effect returns.
cleanup(w) ==
    IF w.shared.animationId # 0
    THEN [w EXCEPT !.cbs = cancelAnimationFrame(@, w.shared.animationId),
                   !.shared.animationId = 0]
    ELSE w

\* ------------------------------------------------------------ observation
\* last records the step just taken: its operation, the instances whose code
\* ran, whether the step before it was a Cancel, the owners of the callbacks
\* it cancelled, how many interpolations it made, what its code did in order,
\* and what animate() read (the tracked element's rect, the viewport) and sampled.
NoSample == [position |-> <<0, 0, 0>>, scale |-> <<0, 0, 0>>]

Did(op, insts, w, element, vp) ==
    LET n == w.ticks - ticks IN
    [op |-> op, insts |-> insts, afterCancel |-> last.op = "Cancel",
     cancelled |-> IF op = "Frame" THEN {}
                   ELSE {c.closure.inst : c \in rafCallbacks \ w.cbs},
     updates |-> n, steps |-> w.steps,
     element |-> element,
     vp |-> IF n > 0 THEN vp ELSE Null,
     target |-> IF n > 0 THEN getDOMState(element, vp) ELSE NoSample]

\* run records the latest run of consecutive interpolations made with the same
\* sample and the same lerp factors: the position and scale it started from,
\* the sample, the factors and the number of interpolations.
NoRun == [from |-> NoSample, target |-> NoSample, alpha |-> {}, n |-> 0]

Ran(insts, w, element, vp) ==
    LET n == w.ticks - ticks
        alpha == {LerpFactorOf(i) : i \in insts}
    IN IF n = 0 THEN run
       ELSE LET t == getDOMState(element, vp) IN
            IF run.target = t /\ run.alpha = alpha
            THEN [run EXCEPT !.n = @ + n]
            ELSE [from |-> [position |-> sharedMeshState.position,
                            scale |-> sharedMeshState.scale],
                  target |-> t, alpha |-> alpha, n |-> n]

\* The variables a World value stands for take its fields.
Becomes(w) ==
    /\ sharedMeshState' = w.shared
    /\ rafCallbacks' = w.cbs
    /\ rafNext' = w.next
    /\ canvas' = w.canvas
    /\ thrown' = w.thrown
    /\ ticks' = w.ticks

\* ------------------------------------------------------------------- Init
Init ==
    /\ sharedMeshState = Undefined
    /\ rafCallbacks = {}
    /\ rafNext = 1
    /\ phase = [i \in Instances |-> "unmounted"]
    /\ track = [i \in Instances |-> FALSE]
    /\ inViewport = [i \in Instances |-> FALSE]
    /\ canvas = [k \in Ids |-> NoMesh]
    /\ thrown = FALSE
    /\ ticks = 0
    /\ run = NoRun
    /\ last = [op |-> "Init", insts |-> {}, afterCancel |-> FALSE, cancelled |-> {}, updates |-> 0, steps |-> <<>>,
               element |-> Null, vp |-> Null, target |-> NoSample]

\* ---------------------------------------------------------------- actions
\* React renders AnimatedMesh for a mount: the body runs getSharedMeshState(),
\* useTracker (inViewport starts false) and useCanvas; the effect is queued.
Render(i) ==
    /\ phase[i] = "unmounted"
    /\ LET shared == getSharedMeshState(sharedMeshState) IN
        /\ sharedMeshState' = shared
        /\ canvas' = useCanvas(canvas, IdOf(i), MeshProps(shared, FALSE))
    /\ phase' = [phase EXCEPT ![i] = "rendered"]
    /\ inViewport' = [inViewport EXCEPT ![i] = FALSE]
    /\ last' = [op |-> "Render", insts |-> {i}, afterCancel |-> FALSE, cancelled |-> {}, updates |-> 0, steps |-> <<>>,
                element |-> Null, vp |-> Null, target |-> NoSample]
    /\ UNCHANGED <<rafCallbacks, rafNext, track, thrown, ticks, run>>

\* React attaches the tracked element to trackRef (<Component ref={trackRef}>).
RefAttach(i) ==
    /\ phase[i] \in {"rendered", "running"}
    /\ ~track[i]
    /\ track' = [track EXCEPT ![i] = TRUE]
    /\ last' = [op |-> "RefAttach", insts |-> {i}, afterCancel |-> FALSE, cancelled |-> {}, updates |-> 0, steps |-> <<>>,
                element |-> Null, vp |-> Null, target |-> NoSample]
    /\ UNCHANGED <<sharedMeshState, rafCallbacks, rafNext, phase, inViewport,
                   canvas, thrown, ticks, run>>

\* Start: React runs the queued effect of instance i.
Start(i, rect, vp) ==
    /\ phase[i] = "rendered"
    /\ canvas[IdOf(i)].registered              \* if (!update) return
    /\ track[i] => ticks < MaxTicks
    /\ LET element == IF track[i] THEN rect ELSE Null
           w == effect(World, Closure(i), element, vp)
       IN /\ Becomes(w)
          /\ last' = Did("Start", {i}, w, element, vp)
          /\ run' = Ran({i}, w, element, vp)
    /\ phase' = [phase EXCEPT ![i] = "running"]
    /\ UNCHANGED <<track, inViewport>>

\* The tracker reports a changed inViewport: React re-renders the instance (the
\* body runs getSharedMeshState() and useCanvas again), and since
\* tracker.inViewport is a dependency the effect is torn down and rerun.
ViewportChange(i) ==
    /\ phase[i] = "running"
    /\ inViewport' = [inViewport EXCEPT ![i] = ~@]
    /\ LET shared == getSharedMeshState(sharedMeshState) IN
        /\ sharedMeshState' = shared
        /\ canvas' = useCanvas(canvas, IdOf(i), MeshProps(shared, ~inViewport[i]))
    /\ phase' = [phase EXCEPT ![i] = "stale"]
    /\ last' = [op |-> "ViewportChange", insts |-> {i}, afterCancel |-> FALSE, cancelled |-> {},
                updates |-> 0, steps |-> <<>>, element |-> Null, vp |-> Null, target |-> NoSample]
    /\ UNCHANGED <<rafCallbacks, rafNext, track, thrown, ticks, run>>

\* Navigation removes the instance: React detaches the ref in the commit and
\* queues the effect's cleanup.
Unmount(i) ==
    /\ phase[i] = "running"
    /\ phase' = [phase EXCEPT ![i] = "unmounting"]
    /\ track' = [track EXCEPT ![i] = FALSE]
    /\ canvas' = removeFromCanvas(canvas, IdOf(i), Dispose)
    /\ last' = [op |-> "Unmount", insts |-> {i}, afterCancel |-> FALSE, cancelled |-> {}, updates |-> 0, steps |-> <<>>,
                element |-> Null, vp |-> Null, target |-> NoSample]
    /\ UNCHANGED <<sharedMeshState, rafCallbacks, rafNext, inViewport,
                   thrown, ticks, run>>

\* Cancel: React runs the cleanup of instance i's effect.
Cancel(i) ==
    /\ phase[i] \in {"stale", "unmounting"}
    /\ LET w == cleanup(World) IN
          /\ Becomes(w)
          /\ last' = Did("Cancel", {i}, w, Null, Null)
          /\ run' = run
    /\ phase' = [phase EXCEPT ![i] = IF @ = "stale" THEN "rendered" ELSE "unmounted"]
    /\ UNCHANGED <<track, inViewport>>

\* The callbacks of a frame in the order they were requested.
RECURSIVE InOrder(_)
InOrder(cbs) ==
    IF cbs = {} THEN <<>>
    ELSE LET first == CHOOSE c \in cbs : \A d \in cbs : c.handle <= d.handle
         IN <<first>> \o InOrder(cbs \ {first})

\* Runs the callbacks one after the other; each reads its own track.current.
RECURSIVE RunCallbacks(_, _, _, _)
RunCallbacks(w, queue, rect, vp) ==
    IF queue = <<>> THEN w
    ELSE LET c == Head(queue).closure
             element == IF track[c.inst] THEN rect ELSE Null
         IN RunCallbacks(animate(w, c, element, vp), Tail(queue), rect, vp)

\* A display frame: the browser takes the pending callbacks off its list and
\* runs them; what they request runs in the next frame.
Frame(rect, vp) ==
    /\ rafCallbacks # {}
    /\ (\E c \in rafCallbacks : track[c.closure.inst]) => ticks < MaxTicks
    /\ LET queue == InOrder(rafCallbacks)
           w == RunCallbacks([World EXCEPT !.cbs = {}], queue, rect, vp)
           ran == {c.closure.inst : c \in rafCallbacks}
       IN /\ Becomes(w)
          /\ last' = Did("Frame", ran, w,
                         IF w.ticks > ticks THEN rect ELSE Null, vp)
          /\ run' = Ran({i \in ran : track[i]}, w, rect, vp)
    /\ UNCHANGED <<phase, track, inViewport>>

Next ==
    \/ \E i \in Instances : Render(i)
    \/ \E i \in Instances : RefAttach(i)
    \/ \E i \in Instances, rect \in Rects, vp \in Viewports : Start(i, rect, vp)
    \/ \E i \in Instances : ViewportChange(i)
    \/ \E i \in Instances : Unmount(i)
    \/ \E i \in Instances : Cancel(i)
    \/ \E rect \in Rects, vp \in Viewports : Frame(rect, vp)

Spec == Init /\ [][Next]_vars

\* ================================================================= claims
Pending(i) == {c \in rafCallbacks : c.closure.inst = i}

\* The step just taken ran animate() (at Start, or from a frame callback).
Ticked == last.op \in {"Start", "Frame"}

\* The step being taken runs animate() and every instance it runs for has
\* track.current unset.
TickUnset == /\ last'.op \in {"Start", "Frame"}
             /\ \A i \in last'.insts : ~track[i]

\* new[k] = old[k] + (target[k] - old[k]) * a / LerpDen, cleared of the division.
Interpolated(old, new, target, a) ==
    \A k \in 1..3 : LerpDen * (new[k] - old[k]) = (target[k] - old[k]) * a

\* C1: in every reachable state at most one frame callback is pending.
C1_SingleActiveLoop == Cardinality(rafCallbacks) <= 1

\* A Start that found a loop active, cancelled it, and left one callback pending.
C1_Witness == /\ last.op = "Start"
              /\ last.cancelled # {}
              /\ Cardinality(rafCallbacks) = 1

\* C2: a Start that finds a loop active leaves exactly one callback pending,
\* the one it has just requested for its own instance, so the cancelled chain
\* is never run again.
C2_SecondLoopSurvives ==
    (last.op = "Start" /\ last.cancelled # {}) =>
        /\ Cardinality(rafCallbacks) = 1
        /\ \A c \in rafCallbacks :
              /\ c.closure.inst \in last.insts
              /\ c.handle = sharedMeshState.animationId
              /\ c.handle = rafNext - 1

\* C3: a tick that finds track.current unset still schedules the next tick:
\* after it a callback of the instance is pending.
C3_UnsetTickReschedules ==
    (Ticked /\ last.updates = 0) => \E i \in last.insts : Pending(i) # {}

\* C4: once the old mount's Cancel and the new mount's Start have both run, in
\* either order, the new mount's loop is scheduled.  The case stated is the
\* order Start (new) then Cancel (old): the old mount's cleanup has just run,
\* after the new mount's effect had scheduled a callback.
C4_OutOfOrderTeardown ==
    \A old \in Instances : \A new \in Instances \ {old} :
        (/\ last.op = "Cancel" /\ last.insts = {old} /\ last.cancelled = {new}
         /\ phase[old] = "unmounted" /\ phase[new] = "running")
        => Cardinality(Pending(new)) = 1

\* C5: after a Cancel the handle is none and no callback of the cancelling
\* instance is pending; an unmounted instance never has a pending callback.
C5_NoDanglingCallback ==
    /\ last.op = "Cancel" =>
          /\ sharedMeshState.animationId = 0
          /\ \A i \in last.insts : Pending(i) = {}
    /\ \A i \in Instances : phase[i] = "unmounted" => Pending(i) = {}

\* An unmount whose Cancel found a callback pending and cancelled it.
C5_Witness == /\ last.op = "Cancel"
              /\ last.cancelled # {}
              /\ \E i \in last.insts : phase[i] = "unmounted"

\* C6: a tick that runs while track.current is unset raises nothing, leaves
\* position and scale as they were and pushes nothing to the mesh.
C6_UnsetTickIsNoOp ==
    [][TickUnset =>
          /\ thrown' = thrown
          /\ sharedMeshState'.position = sharedMeshState.position
          /\ sharedMeshState'.scale = sharedMeshState.scale
          /\ canvas' = canvas]_vars

\* A frame callback that ran after the unmount commit detached the element,
\* with the shared state already moved away from its initial values.
C6_Witness == /\ last.op = "Frame"
              /\ last.updates = 0
              /\ \E i \in last.insts : phase[i] = "unmounting"
              /\ ticks >= 1

\* C7: unmounting (the commit and the Cancel) leaves position, scale and the
\* registered meshes as they are; the render of the next mount finds the
\* state as it was left; and the first tick of a mount interpolates from it.
C7_StateSurvivesUnmount ==
    [][/\ last'.op \in {"Unmount", "Cancel"} =>
             /\ sharedMeshState'.position = sharedMeshState.position
             /\ sharedMeshState'.scale = sharedMeshState.scale
             /\ canvas' = canvas
       /\ (last'.op = "Render" /\ sharedMeshState # Undefined) =>
             sharedMeshState' = sharedMeshState
       /\ (last'.op = "Start" /\ last'.updates = 1) =>
             \A i \in last'.insts :
                /\ Interpolated(sharedMeshState.position, sharedMeshState'.position,
                                last'.target.position, LerpFactorOf(i))
                /\ Interpolated(sharedMeshState.scale, sharedMeshState'.scale,
                                last'.target.scale, LerpFactorOf(i))]_vars

\* The first tick of a mount made after an earlier tick, with every other
\* instance unmounted: the earlier tick belongs to a mount or an effect that
\* has been cancelled since.
C7_Witness == /\ last.op = "Start"
              /\ last.updates = 1
              /\ ticks >= 2
              /\ \A i \in Instances \ last.insts : phase[i] = "unmounted"

\* C8: every tick that has an element moves position and scale to
\* old + (T - old) * alpha in every component; from (0,0,0) towards (100,0,0)
\* with alpha = 0.1 the position is (10,0,0) after one tick, (19,0,0) after two.
C8_LerpStep ==
    [][(last'.op \in {"Start", "Frame"} /\ last'.updates = 1) =>
          \A i \in last'.insts :
             /\ Interpolated(sharedMeshState.position, sharedMeshState'.position,
                             last'.target.position, LerpFactorOf(i))
             /\ Interpolated(sharedMeshState.scale, sharedMeshState'.scale,
                             last'.target.scale, LerpFactorOf(i))
             /\ (/\ LerpFactorOf(i) = 1
                 /\ last'.target.position = Vec(100, 0, 0)) =>
                   /\ sharedMeshState.position = Vec(0, 0, 0) =>
                         sharedMeshState'.position = Vec(10, 0, 0)
                   /\ sharedMeshState.position = Vec(10, 0, 0) =>
                         sharedMeshState'.position = Vec(19, 0, 0)]_vars

\* The second tick of the example has run.
C8_Witness == /\ Ticked
              /\ last.updates = 1
              /\ last.target.position = Vec(100, 0, 0)
              /\ sharedMeshState.position = Vec(19, 0, 0)

\* C9: after every Cancel the handle is none, and a Cancel that directly
\* follows a Cancel cancels nothing and changes no state.
C9_CancelIdempotent ==
    [][last'.op = "Cancel" =>
          /\ sharedMeshState'.animationId = 0
          /\ last.op = "Cancel" =>
                /\ last'.cancelled = {}
                /\ UNCHANGED <<sharedMeshState, rafCallbacks, rafNext, canvas,
                               thrown, ticks>>]_vars

\* Two Cancels in a row have run.
C9_Witness == last.op = "Cancel" /\ last.afterCancel

\* C10: the sample of a rect {left, top, width, height} in a viewport {w, h}
\* is position (left + width/2 - w/2, -(top + height/2 - h/2), 0) and scale
\* (width, height, 1); rect {100, 200, 80, 80} in 1000x800 gives position
\* (-360, 160, 0) and scale (80, 80, 1).
C10_Sample ==
    (Ticked /\ last.updates >= 1) =>
        LET r == last.element
            v == last.vp
            t == last.target
        IN /\ 2 * t.position[1] = (2 * r.left + r.width - v.w) * Unit
           /\ 2 * t.position[2] = (v.h - 2 * r.top - r.height) * Unit
           /\ t.position[3] = 0
           /\ t.scale = <<r.width * Unit, r.height * Unit, Unit>>
           /\ (/\ r = [left |-> 100, top |-> 200, width |-> 80, height |-> 80]
               /\ v = [w |-> 1000, h |-> 800]) =>
                 /\ t.position = Vec(-360, 160, 0)
                 /\ t.scale = Vec(80, 80, 1)

\* A tick has sampled the rect of the example in the viewport of the example.
C10_Witness == /\ Ticked
               /\ last.updates = 1
               /\ last.element = [left |-> 100, top |-> 200, width |-> 80, height |-> 80]
               /\ last.vp = [w |-> 1000, h |-> 800]

Abs(x) == IF x < 0 THEN -x ELSE x

\* |state - target| <= |from - target| * ((LerpDen - a) / LerpDen)^n in every
\* component.  The division comes first to stay within the integers; it is
\* exact, the values of a run of n ticks being multiples of LerpDen^n.
Decayed(state, from, target, a, n) ==
    \A k \in 1..3 :
        Abs(state[k] - target[k])
            <= (Abs(from[k] - target[k]) \div (LerpDen ^ n)) * ((LerpDen - a) ^ n)

\* C11: after the N ticks of a run towards one target with alpha = 0.1, every
\* component of position and scale is within |initial - target| * 0.9^N of
\* the target, and no such tick increases the distance to its target.
C11_Convergence ==
    [][/\ run'.alpha = {DefaultLerpFactor} =>
             /\ Decayed(sharedMeshState'.position, run'.from.position,
                        run'.target.position, DefaultLerpFactor, run'.n)
             /\ Decayed(sharedMeshState'.scale, run'.from.scale,
                        run'.target.scale, DefaultLerpFactor, run'.n)
       /\ (/\ last'.op \in {"Start", "Frame"} /\ last'.updates = 1
           /\ \A i \in last'.insts : LerpFactorOf(i) = DefaultLerpFactor) =>
             \A k \in 1..3 :
                /\ Abs(sharedMeshState'.position[k] - last'.target.position[k])
                     <= Abs(sharedMeshState.position[k] - last'.target.position[k])
                /\ Abs(sharedMeshState'.scale[k] - last'.target.scale[k])
                     <= Abs(sharedMeshState.scale[k] - last'.target.scale[k])]_vars

\* Two ticks in a row towards the same target with alpha = 0.1, starting away
\* from it.
C11_Witness == /\ run.n = 2
               /\ run.alpha = {DefaultLerpFactor}
               /\ run.from.position # run.target.position
               /\ sharedMeshState.position # run.target.position

\* C12: the first getSharedMeshState() creates the state with position
\* (0,0,0), scale (1,1,1) and no handle; every later call, in any render of any
\* mount, returns the state as it is, and the state never goes back to undefined.
C12_Singleton ==
    [][/\ last'.op \in {"Render", "ViewportChange"} =>
             IF sharedMeshState = Undefined
             THEN sharedMeshState' = [position |-> <<0, 0, 0>>,
                                      scale |-> <<Unit, Unit, Unit>>,
                                      animationId |-> 0]
             ELSE sharedMeshState' = sharedMeshState
       /\ sharedMeshState # Undefined => sharedMeshState' # Undefined]_vars

\* A render of a mount that found the state moved and a loop handle stored.
C12_Witness == /\ last.op = "Render"
               /\ sharedMeshState.animationId # 0
               /\ sharedMeshState.position # <<0, 0, 0>>

C14_HandleIsPending ==
    IF sharedMeshState = Undefined THEN rafCallbacks = {}
    ELSE /\ sharedMeshState.animationId # 0 =>
               \E c \in rafCallbacks : c.handle = sharedMeshState.animationId
         /\ \A c \in rafCallbacks : c.handle = sharedMeshState.animationId

\* The step being taken is the Start of an effect re-run: it directly follows
\* the Cancel of the same instance, which only a changed dependency causes.
EffectRerun == /\ last.op = "Cancel"
               /\ last'.op = "Start"
               /\ last'.insts = last.insts

Moves == \/ sharedMeshState'.position # sharedMeshState.position
         \/ sharedMeshState'.scale # sharedMeshState.scale

C17_TickOrder ==
    (Ticked /\ last.updates = 1) =>
        /\ last.steps = <<"lerp", "update", "requestRender", "requestAnimationFrame">>
        /\ \E i \in last.insts :
              /\ canvas[IdOf(i)].props.position = sharedMeshState.position
              /\ canvas[IdOf(i)].props.scale = sharedMeshState.scale
              /\ \E c \in rafCallbacks :
                    /\ c.closure.inst = i
                    /\ c.handle = sharedMeshState.animationId
                    /\ c.handle = rafNext - 1

\* A frame callback has run a tick that moved the state.
C17_Witness == /\ last.op = "Frame"
               /\ last.updates = 1
               /\ sharedMeshState.position # <<0, 0, 0>>

\* The instances that have a callback in the list cbs.
Owners(cbs) == {c.closure.inst : c \in cbs}

\* C18: the two instances of the index page share the one state and the one
\* handle: a Start cancels the pending callback of the other instance, a Cancel
\* by either instance cancels whatever callback is pending, every pending
\* callback is the one whose handle is stored, and so at most one instance has
\* a callback pending and a frame updates at most one mesh.
C18_SharedLoop ==
    [][/\ last'.op = "Start" =>
              \A i \in last'.insts : \A j \in Instances \ {i} :
                  /\ j \notin Owners(rafCallbacks')
                  /\ j \in Owners(rafCallbacks) => j \in last'.cancelled
       /\ last'.op = "Cancel" =>
              /\ rafCallbacks' = {}
              /\ last'.cancelled = Owners(rafCallbacks)
       /\ last'.op = "Frame" =>
              Cardinality({k \in Ids : canvas'[k] # canvas[k]}) <= 1
       /\ Cardinality(Owners(rafCallbacks')) <= 1
       /\ \A c \in rafCallbacks' : c.handle = sharedMeshState'.animationId]_vars

\* The later instance has started while the earlier one was running with a
\* callback pending: that callback is cancelled and the later one's is pending.
C18_Witness ==
    /\ last.op = "Start"
    /\ \E i \in last.insts : \E j \in Instances \ {i} :
          /\ phase[j] = "running"
          /\ last.cancelled = {j}
          /\ Owners(rafCallbacks) = {i}

====
